---- MODULE Spec2Model ----
(***************************************************************************)
(* Model of the Azure Blob certmagic storage backend (azureBlobStorage.go). *)
(*                                                                         *)
(* Strings are finite sequences of one-character strings, so that the      *)
(* string operations of the code (path.Join, strings.CutPrefix,            *)
(* strings.HasSuffix) are computed, not assumed.                           *)
(***************************************************************************)
EXTENDS Integers, Sequences, FiniteSets, TLC

VARIABLES
    Prefix,     \* az.Prefix, fixed for the lifetime of the backend
    blobs,      \* the container: backend path -> payload, for the blobs present
    reachable,  \* whether the backend answers (FALSE: every call fails in transport)
    hist,       \* per logical key: the last successful Store/Delete made on it, and
                \* whether that Store ran while another Store of the key was in progress
    last,       \* the operation that completed last, with its arguments and results
    pc,         \* per caller: "idle", or the Lock call it is inside
    pcKey,      \* per caller: the key of the call it is inside
    pcVal,      \* per caller: the value of the Store call it is inside
    holding,    \* <<caller, key>>: returned from Lock(key), has not called Unlock(key)
    lockedAt,   \* <<caller, key>> -> clock value at which Lock(key) returned
    crashed,    \* callers that stopped for good
    ctxDone,    \* callers inside Lock whose context was cancelled or ran out
    clock       \* time, in ticks

vars == <<Prefix, blobs, reachable, hist, last, pc, pcKey, pcVal, holding, lockedAt,
          crashed, ctxDone, clock>>

storeVars == <<blobs, reachable, hist>>
lockVars == <<pc, pcKey, pcVal, holding, lockedAt, crashed, ctxDone, clock>>

----------------------------------------------------------------------------
(* Bounds *)

MaxKeyLen == 3
NumCallers == 2
MaxClock == 3

----------------------------------------------------------------------------
(* Strings *)

Chars == {"a", "b", "/", "."}

Slash == "/"

RECURSIVE StringsUpTo(_)
StringsUpTo(n) ==
    IF n = 0 THEN {<<>>}
    ELSE LET shorter == StringsUpTo(n - 1)
         IN shorter \cup {Append(s, c) : s \in {t \in shorter : Len(t) = n - 1}, c \in Chars}

HasPrefix(s, p) == Len(s) >= Len(p) /\ SubSeq(s, 1, Len(p)) = p

HasSuffix(s, p) == Len(s) >= Len(p) /\ SubSeq(s, Len(s) - Len(p) + 1, Len(s)) = p

\* strings.CutPrefix: s without the leading p, or s itself when it does not start with p
CutPrefix(s, p) == IF HasPrefix(s, p) THEN SubSeq(s, Len(p) + 1, Len(s)) ELSE s

\* the elements of s between slashes, in order (empty elements included)
RECURSIVE Split(_)
Split(s) ==
    IF \A i \in 1..Len(s) : s[i] # Slash THEN <<s>>
    ELSE LET i == CHOOSE j \in 1..Len(s) : s[j] = Slash /\ \A h \in 1..(j - 1) : s[h] # Slash
         IN <<SubSeq(s, 1, i - 1)>> \o Split(SubSeq(s, i + 1, Len(s)))

RECURSIVE JoinSlash(_)
JoinSlash(elems) ==
    IF Len(elems) = 0 THEN <<>>
    ELSE IF Len(elems) = 1 THEN elems[1]
    ELSE elems[1] \o <<Slash>> \o JoinSlash(Tail(elems))

Dot == <<".">>
DotDot == <<".", ".">>

\* path.Clean's pass over the elements: "" and "." are dropped, ".." removes the
\* element before it, is dropped at the root and kept at the start of a relative path
RECURSIVE CleanElems(_, _, _)
CleanElems(elems, out, rooted) ==
    IF Len(elems) = 0 THEN out
    ELSE LET e == Head(elems)
             rest == Tail(elems)
         IN IF e = <<>> \/ e = Dot THEN CleanElems(rest, out, rooted)
            ELSE IF e = DotDot
                 THEN IF Len(out) > 0 /\ out[Len(out)] # DotDot
                      THEN CleanElems(rest, SubSeq(out, 1, Len(out) - 1), rooted)
                      ELSE IF rooted THEN CleanElems(rest, out, rooted)
                      ELSE CleanElems(rest, Append(out, e), rooted)
            ELSE CleanElems(rest, Append(out, e), rooted)

\* path.Clean
Clean(s) ==
    IF s = <<>> THEN Dot
    ELSE LET rooted == s[1] = Slash
             body == JoinSlash(CleanElems(Split(s), <<>>, rooted))
             res == IF rooted THEN <<Slash>> \o body ELSE body
         IN IF res = <<>> THEN Dot ELSE res

\* path.Join of two elements: empty elements are ignored, the rest is joined by
\* slashes and cleaned; "" when both are empty
PathJoin(a, b) ==
    IF Len(a) + Len(b) = 0 THEN <<>>
    ELSE IF a = <<>> THEN Clean(b)
    ELSE Clean(a \o <<Slash>> \o b)

----------------------------------------------------------------------------
(* Namespace mapping *)

KeyPrefix(prefix, key) == PathJoin(prefix, key)

CutKeyPrefix(prefix, key) == CutPrefix(key, prefix)

----------------------------------------------------------------------------
(* The blob container, as the SDK calls of the code see it *)

Prefixes == {<<>>, <<"a">>, <<"p", "/">>}

StoreKeys == {<<"b">>, <<"a", "/", "b">>, <<"a", "/">>}

ListPrefixes == {<<>>, <<"a">>}

Values == {<<1>>, <<2, 1>>}

\* the error of a backend call on the blob at path p: none ("nil"), a transport
\* failure, or the service's answer that there is no such blob
BackendErr(p) ==
    IF ~reachable THEN "Transport"
    ELSE IF p \notin DOMAIN blobs THEN "BlobNotFound"
    ELSE "nil"

UploadAppend(p, v) ==
    [q \in DOMAIN blobs \cup {p} |->
        IF q # p THEN blobs[q] ELSE IF p \in DOMAIN blobs THEN blobs[p] \o v ELSE v]

\* UploadBuffer: puts v at p, over whatever was there
Upload(p, v) == [q \in DOMAIN blobs \cup {p} |-> IF q = p THEN v ELSE blobs[q]]

\* DeleteBlob
Remove(p) == [q \in DOMAIN blobs \ {p} |-> blobs[q]]

NoKeyInfo == [Key |-> <<>>, Size |-> 0, IsTerminal |-> FALSE]

\* the configured fields of a backend other than Prefix
NoConfig == [AccountName |-> <<>>, AccountKey |-> <<>>, Container |-> <<>>]

\* a completed call: its arguments (key, val, flag), whether the backend answered
\* while it ran (up), and what it returned (err, data, ok, keys, info); for Lock,
\* flag tells that its context had ended before it returned; for Unlock, held tells
\* that the caller held the key when it called, and again that its previous call
\* was the same Unlock; for String, az is the backend it was called on
NoCall == [op |-> "none", caller |-> 0, key |-> <<>>, val |-> <<>>, flag |-> FALSE,
           up |-> TRUE, err |-> "nil", data |-> <<>>, ok |-> FALSE, keys |-> {},
           info |-> NoKeyInfo, held |-> FALSE, again |-> FALSE, az |-> NoConfig]

Call(op, key) == [NoCall EXCEPT !.op = op, !.key = key, !.up = reachable]

Never == [st |-> "never", val |-> <<>>, raced |-> FALSE, racers |-> {}]

\* a key's history after a Store of v that overlapped no other Store of the key
Stored(v) == [st |-> "stored", val |-> v, raced |-> FALSE, racers |-> {}]

Deleted == [st |-> "deleted", val |-> <<>>, raced |-> FALSE, racers |-> {}]

----------------------------------------------------------------------------
(* CRUD operations *)

\* the blob name Exists asks the properties of
ExistsPath(prefix, key) == key

ExistsUnlessNotFound(key) == BackendErr(ExistsPath(Prefix, key)) # "BlobNotFound"

\* Exists: true iff GetProperties of that blob returns no error
ExistsResult(key) == BackendErr(ExistsPath(Prefix, key)) = "nil"

Store(k, v) ==
    LET p == KeyPrefix(Prefix, k)
    IN /\ IF reachable
          THEN /\ blobs' = Upload(p, v)
               /\ hist' = [hist EXCEPT ![k] = Stored(v)]
               /\ last' = [Call("Store", k) EXCEPT !.val = v]
          ELSE /\ UNCHANGED <<blobs, hist>>
               /\ last' = [Call("Store", k) EXCEPT !.val = v, !.err = "Transport"]
       /\ UNCHANGED <<Prefix, reachable, lockVars>>

LoadAndRemove(k) ==
    LET p == KeyPrefix(Prefix, k)
    IN /\ IF BackendErr(p) # "nil"
          THEN /\ last' = [Call("Load", k) EXCEPT !.err = "NotExist"]
               /\ UNCHANGED blobs
          ELSE /\ last' = [Call("Load", k) EXCEPT !.data = blobs[p]]
               /\ blobs' = Remove(p)
       /\ UNCHANGED <<Prefix, reachable, hist, lockVars>>

Load(k) ==
    /\ IF ~ExistsResult(k)
       THEN last' = [Call("Load", k) EXCEPT !.err = "NotExist"]
       ELSE LET p == KeyPrefix(Prefix, k)
            IN IF BackendErr(p) # "nil"
               THEN last' = [Call("Load", k) EXCEPT !.err = BackendErr(p)]
               ELSE last' = [Call("Load", k) EXCEPT !.data = blobs[p]]
    /\ UNCHANGED <<Prefix, storeVars, lockVars>>

Delete(k) ==
    LET p == KeyPrefix(Prefix, k)
    IN /\ IF BackendErr(p) = "nil"
          THEN /\ blobs' = Remove(p)
               /\ hist' = [hist EXCEPT ![k] = Deleted]
          ELSE UNCHANGED <<blobs, hist>>
       /\ last' = [Call("Delete", k) EXCEPT !.err = BackendErr(p)]
       /\ UNCHANGED <<Prefix, reachable, lockVars>>

Exists(k) ==
    /\ last' = [Call("Exists", k) EXCEPT !.ok = ExistsResult(k)]
    /\ UNCHANGED <<Prefix, storeVars, lockVars>>

\* the names the flat pager returns for the resolved prefix, each cut by CutKeyPrefix
ListResult(prefix) ==
    {CutKeyPrefix(Prefix, n) : n \in {q \in DOMAIN blobs : HasPrefix(q, KeyPrefix(Prefix, prefix))}}

List(prefix, recursive) ==
    /\ IF reachable
       THEN last' = [Call("List", prefix) EXCEPT !.flag = recursive, !.keys = ListResult(prefix)]
       ELSE last' = [Call("List", prefix) EXCEPT !.flag = recursive, !.err = "Transport"]
    /\ UNCHANGED <<Prefix, storeVars, lockVars>>

\* the IsTerminal field Stat computes from the resolved key
IsTerminal(key) == HasSuffix(key, <<Slash>>)

Stat(k) ==
    LET p == KeyPrefix(Prefix, k)
    IN /\ IF BackendErr(p) # "nil"
          THEN last' = Call("Stat", k)
          ELSE last' = [Call("Stat", k) EXCEPT
                            !.info = [Key |-> p, Size |-> Len(blobs[p]),
                                      IsTerminal |-> IsTerminal(p)]]
       /\ UNCHANGED <<Prefix, storeVars, lockVars>>

\* the backend stops or starts answering
Outage ==
    /\ reachable' = ~reachable
    /\ UNCHANGED <<Prefix, blobs, hist, last, lockVars>>

----------------------------------------------------------------------------
(* Specification of the storage operations *)

Callers == 1..NumCallers

LockKeys == {<<"x">>, <<"y">>}

LockInit ==
    /\ pc = [c \in Callers |-> "idle"]
    /\ pcKey = [c \in Callers |-> <<>>]
    /\ pcVal = [c \in Callers |-> <<>>]
    /\ holding = {}
    /\ lockedAt = [h \in Callers \X LockKeys |-> 0]
    /\ crashed = {}
    /\ ctxDone = {}
    /\ clock = 0

Init ==
    /\ Prefix \in Prefixes
    /\ blobs = <<>>
    /\ reachable = TRUE
    /\ hist = [k \in StoreKeys |-> Never]
    /\ last = NoCall
    /\ LockInit

Next ==
    \/ \E k \in StoreKeys, v \in Values : Store(k, v)
    \/ \E k \in StoreKeys : Load(k)
    \/ \E k \in StoreKeys : Delete(k)
    \/ \E k \in StoreKeys : Exists(k)
    \/ \E p \in ListPrefixes, r \in BOOLEAN : List(p, r)
    \/ \E k \in StoreKeys : Stat(k)
    \/ Outage

Spec == Init /\ [][Next]_vars

----------------------------------------------------------------------------
(* The namespace mapping alone: a key is resolved, the resolved path is cut back *)

Keys == StringsUpTo(MaxKeyLen)

ResolveKey(k) ==
    /\ last.op # "KeyPrefix"
    /\ last' = [NoCall EXCEPT !.op = "KeyPrefix", !.key = k, !.data = KeyPrefix(Prefix, k)]
    /\ UNCHANGED <<Prefix, storeVars, lockVars>>

CutResolved ==
    /\ last.op = "KeyPrefix"
    /\ last' = [NoCall EXCEPT !.op = "CutKeyPrefix", !.key = last.key, !.val = last.data,
                              !.data = CutKeyPrefix(Prefix, last.data)]
    /\ UNCHANGED <<Prefix, storeVars, lockVars>>

NextKeys ==
    \/ \E k \in Keys : ResolveKey(k)
    \/ CutResolved

SpecKeys == Init /\ [][NextKeys]_vars

----------------------------------------------------------------------------
(* The diagnostic string of a backend *)

AccountNames == {<<"a", "b">>, <<"b">>}

AccountKeys == Keys

Containers == {<<"a">>, <<"b", "a">>}

Configs == [AccountName : AccountNames, AccountKey : AccountKeys, Container : Containers]

\* s has sub as a substring
Contains(s, sub) == \E i \in 0..(Len(s) - Len(sub)) : SubSeq(s, i + 1, i + Len(sub)) = sub

StringAllFields(az, prefix) ==
    <<"{">> \o az.AccountName \o <<" ">> \o az.AccountKey \o <<" ">> \o az.Container
        \o <<" ">> \o prefix \o <<"}">>

\* String: the format's literal pieces are one element each, the fields are spelled out
String(az, prefix) ==
    <<"Azure Blob Storage Account: ">> \o az.AccountName \o <<", Container: ">>
        \o az.Container \o <<", Prefix: ">> \o prefix

Describe(az) ==
    /\ last' = [NoCall EXCEPT !.op = "String", !.az = az, !.data = String(az, Prefix)]
    /\ UNCHANGED <<Prefix, storeVars, lockVars>>

NextString == \E az \in Configs : Describe(az)

SpecString == Init /\ [][NextString]_vars

----------------------------------------------------------------------------
(* Lock and Unlock, called by concurrent callers *)

\* the age past which the design treats a lock as abandoned
StaleAfter == 2

\* caller c enters Lock(k)
LockCall(c, k) ==
    /\ c \notin crashed
    /\ pc[c] = "idle"
    /\ <<c, k>> \notin holding
    /\ pc' = [pc EXCEPT ![c] = "Lock"]
    /\ pcKey' = [pcKey EXCEPT ![c] = k]
    /\ UNCHANGED <<Prefix, storeVars, pcVal, last, holding, lockedAt, crashed, ctxDone, clock>>

\* the context of the Lock call c is inside is cancelled, or its deadline passes
CtxEnd(c) ==
    /\ c \notin crashed
    /\ pc[c] = "Lock"
    /\ c \notin ctxDone
    /\ ctxDone' = ctxDone \cup {c}
    /\ UNCHANGED <<Prefix, storeVars, pcVal, last, pc, pcKey, holding, lockedAt, crashed, clock>>

\* the error Lock returns
LockErr(c) == "nil"

\* Lock returns to c
LockReturn(c) ==
    /\ c \notin crashed
    /\ pc[c] = "Lock"
    /\ pc' = [pc EXCEPT ![c] = "idle"]
    /\ pcKey' = [pcKey EXCEPT ![c] = <<>>]
    /\ IF LockErr(c) = "nil"
       THEN /\ holding' = holding \cup {<<c, pcKey[c]>>}
            /\ lockedAt' = [lockedAt EXCEPT ![<<c, pcKey[c]>>] = clock]
       ELSE UNCHANGED <<holding, lockedAt>>
    /\ ctxDone' = ctxDone \ {c}
    /\ last' = [NoCall EXCEPT !.op = "Lock", !.caller = c, !.key = pcKey[c],
                              !.flag = c \in ctxDone, !.err = LockErr(c)]
    /\ UNCHANGED <<Prefix, storeVars, pcVal, crashed, clock>>

UnlockErrIfAbsent(c, k) == IF <<c, k>> \in holding THEN "nil" ELSE "BlobNotFound"

\* the error Unlock returns
UnlockErr(c, k) == "nil"

\* Unlock(k) called by c
Unlock(c, k) ==
    /\ c \notin crashed
    /\ pc[c] = "idle"
    /\ holding' = holding \ {<<c, k>>}
    /\ lockedAt' = [lockedAt EXCEPT ![<<c, k>>] = 0]
    /\ last' = [NoCall EXCEPT !.op = "Unlock", !.caller = c, !.key = k,
                              !.err = UnlockErr(c, k), !.held = <<c, k>> \in holding,
                              !.again = (last.op = "Unlock" /\ last.caller = c /\ last.key = k)]
    /\ UNCHANGED <<Prefix, storeVars, pcVal, pc, pcKey, crashed, ctxDone, clock>>

\* the process of caller c dies; it makes no call after that
Crash(c) ==
    /\ c \notin crashed
    /\ crashed' = crashed \cup {c}
    /\ UNCHANGED <<Prefix, storeVars, pcVal, last, pc, pcKey, holding, lockedAt, ctxDone, clock>>

Tick ==
    /\ clock < MaxClock
    /\ clock' = clock + 1
    /\ UNCHANGED <<Prefix, storeVars, pcVal, last, pc, pcKey, holding, lockedAt, crashed, ctxDone>>

NextLock ==
    \/ \E c \in Callers, k \in LockKeys : LockCall(c, k)
    \/ \E c \in Callers : CtxEnd(c)
    \/ \E c \in Callers : LockReturn(c)
    \/ \E c \in Callers, k \in LockKeys : Unlock(c, k)
    \/ \E c \in Callers : Crash(c)
    \/ Tick

SpecLock == Init /\ [][NextLock]_vars

\* Lock and Unlock alone, on a container that already holds a stored key
StoredKey == <<"b">>

InitStored ==
    /\ Prefix \in Prefixes
    /\ blobs = (KeyPrefix(Prefix, StoredKey) :> <<1>>)
    /\ reachable = TRUE
    /\ hist = [k \in StoreKeys |->
                  IF k = StoredKey THEN Stored(<<1>>) ELSE Never]
    /\ last = NoCall
    /\ LockInit

NextUnlock ==
    \/ \E c \in Callers, k \in LockKeys : LockCall(c, k)
    \/ \E c \in Callers : LockReturn(c)
    \/ \E c \in Callers, k \in LockKeys : Unlock(c, k)

SpecUnlock == InitStored /\ [][NextUnlock]_vars

----------------------------------------------------------------------------
(* Store, Load and Delete called by concurrent callers: each backend call is one *)
(* step, so the two backend calls of Load can have other callers' calls between *)

ConcKeys == {<<"b">>}

\* caller c enters Store(k, v)
StoreCall(c, k, v) ==
    /\ pc[c] = "idle"
    /\ pc' = [pc EXCEPT ![c] = "Store"]
    /\ pcKey' = [pcKey EXCEPT ![c] = k]
    /\ pcVal' = [pcVal EXCEPT ![c] = v]
    /\ UNCHANGED <<Prefix, storeVars, last, holding, lockedAt, crashed, ctxDone, clock>>

\* the UploadBuffer of c's Store, and its return
StorePut(c) ==
    LET k == pcKey[c]
        v == pcVal[c]
        others == {d \in Callers \ {c} : pc[d] = "Store" /\ pcKey[d] = k}
    IN /\ pc[c] = "Store"
       /\ IF reachable
          THEN /\ blobs' = Upload(KeyPrefix(Prefix, k), v)
               /\ hist' = [hist EXCEPT ![k] =
                              [st |-> "stored", val |-> v,
                               raced |-> (c \in hist[k].racers \/ others # {}),
                               racers |-> (hist[k].racers \ {c}) \cup others]]
               /\ last' = [Call("Store", k) EXCEPT !.caller = c, !.val = v]
          ELSE /\ UNCHANGED <<blobs, hist>>
               /\ last' = [Call("Store", k) EXCEPT !.caller = c, !.val = v,
                                                   !.err = "Transport"]
       /\ pc' = [pc EXCEPT ![c] = "idle"]
       /\ pcKey' = [pcKey EXCEPT ![c] = <<>>]
       /\ pcVal' = [pcVal EXCEPT ![c] = <<>>]
       /\ UNCHANGED <<Prefix, reachable, holding, lockedAt, crashed, ctxDone, clock>>

\* caller c enters Load(k)
LoadCall(c, k) ==
    /\ pc[c] = "idle"
    /\ pc' = [pc EXCEPT ![c] = "LoadProbe"]
    /\ pcKey' = [pcKey EXCEPT ![c] = k]
    /\ UNCHANGED <<Prefix, storeVars, last, pcVal, holding, lockedAt, crashed, ctxDone, clock>>

\* the Exists probe of c's Load: Load returns fs.ErrNotExist when it answers false
LoadProbe(c) ==
    /\ pc[c] = "LoadProbe"
    /\ IF ~ExistsResult(pcKey[c])
       THEN /\ last' = [Call("Load", pcKey[c]) EXCEPT !.caller = c, !.err = "NotExist"]
            /\ pc' = [pc EXCEPT ![c] = "idle"]
            /\ pcKey' = [pcKey EXCEPT ![c] = <<>>]
       ELSE /\ pc' = [pc EXCEPT ![c] = "LoadFetch"]
            /\ UNCHANGED <<last, pcKey>>
    /\ UNCHANGED <<Prefix, storeVars, pcVal, holding, lockedAt, crashed, ctxDone, clock>>

\* the DownloadStream of c's Load, and its return
LoadFetch(c) ==
    LET k == pcKey[c]
        p == KeyPrefix(Prefix, k)
    IN /\ pc[c] = "LoadFetch"
       /\ IF BackendErr(p) # "nil"
          THEN last' = [Call("Load", k) EXCEPT !.caller = c, !.err = BackendErr(p)]
          ELSE last' = [Call("Load", k) EXCEPT !.caller = c, !.data = blobs[p]]
       /\ pc' = [pc EXCEPT ![c] = "idle"]
       /\ pcKey' = [pcKey EXCEPT ![c] = <<>>]
       /\ UNCHANGED <<Prefix, storeVars, pcVal, holding, lockedAt, crashed, ctxDone, clock>>

\* Delete(k) called by c: one DeleteBlob
ConcDelete(c, k) ==
    /\ pc[c] = "idle"
    /\ Delete(k)

NextConc ==
    \/ \E c \in Callers, k \in ConcKeys, v \in Values : StoreCall(c, k, v)
    \/ \E c \in Callers : StorePut(c)
    \/ \E c \in Callers, k \in ConcKeys : LoadCall(c, k)
    \/ \E c \in Callers : LoadProbe(c)
    \/ \E c \in Callers : LoadFetch(c)
    \/ \E c \in Callers, k \in ConcKeys : ConcDelete(c, k)

SpecConc == Init /\ [][NextConc]_vars

----------------------------------------------------------------------------
(* Properties *)

\* a logical key as the certificate manager forms them: elements joined by single
\* slashes, none of them empty, "." or ".."
ValidKey(k) ==
    /\ k # <<>>
    /\ \A i \in 1..Len(Split(k)) : Split(k)[i] \notin {<<>>, Dot, DotDot}

\* the lock c holds on k is younger than the staleness threshold
Fresh(c, k) == clock - lockedAt[<<c, k>>] < StaleAfter

\* caller c returns from Lock(k) in this step
Acquires(c, k) ==
    /\ pc[c] = "Lock"
    /\ pcKey[c] = k
    /\ pc'[c] = "idle"
    /\ <<c, k>> \in holding'

\* C1 (SpecLock). Mutual exclusion: no two callers have both returned from Lock(k)
\* without an Unlock(k) in between, unless the second acquired after the first
\* holder's lock had reached the staleness threshold.
MutualExclusion ==
    \A k \in LockKeys, c \in Callers, d \in Callers :
        (c # d /\ <<c, k>> \in holding /\ <<d, k>> \in holding /\
         lockedAt[<<c, k>>] <= lockedAt[<<d, k>>])
            => lockedAt[<<d, k>>] - lockedAt[<<c, k>>] >= StaleAfter

\* C2 (Spec). Store/Load round trip: with the backend answering, Load(k) of a valid
\* key whose last Store/Delete was a successful Store(k, v) returns v and no error.
StoreLoadRoundTrip ==
    (last.op = "Load" /\ last.up /\ ValidKey(last.key) /\ hist[last.key].st = "stored")
        => (last.err = "nil" /\ last.data = hist[last.key].val)

\* C3 (SpecKeys). Key mapping round trip: for every Prefix and every valid logical
\* key k, CutKeyPrefix(KeyPrefix(k)) = k.
KeyRoundTrip ==
    (last.op = "CutKeyPrefix" /\ ValidKey(last.key)) => last.data = last.key

\* C4 (Spec). After a successful Delete(k) of a stored key and until the next
\* Store(k, _), Exists(k) returns false and Load(k) fails with NotFound.
DeletedIsGone ==
    /\ (last.op = "Exists" /\ hist[last.key].st = "deleted") => ~last.ok
    /\ (last.op = "Load" /\ hist[last.key].st = "deleted") => last.err = "NotExist"

\* C5 (Spec). List correctness: when only valid keys are stored, List(p, true)
\* returns exactly the logical keys currently stored that start with p, as they were
\* passed to Store.
ListExact ==
    (/\ last.op = "List" /\ last.up /\ last.flag
     /\ \A k \in StoreKeys : hist[k].st = "stored" => ValidKey(k))
        => last.keys = {k \in StoreKeys : hist[k].st = "stored" /\ HasPrefix(k, last.key)}

\* C6 (Spec). With the backend answering, Exists(k) of a valid key is true if and
\* only if a blob is present at KeyPrefix(k), the path Store(k, _) writes to.
ExistsIffPresent ==
    (last.op = "Exists" /\ last.up /\ ValidKey(last.key))
        => (last.ok <=> KeyPrefix(Prefix, last.key) \in DOMAIN blobs)

\* C7 (Spec). Stat terminal-ness: for an existing key, Stat reports IsTerminal =
\* FALSE when the key ends with the separator and IsTerminal = TRUE otherwise.
StatTerminal ==
    (last.op = "Stat" /\ last.up /\ KeyPrefix(Prefix, last.key) \in DOMAIN blobs)
        => (last.info.IsTerminal <=> ~HasSuffix(last.key, <<Slash>>))

\* C8 (SpecLock). Blocking: a Lock(k) call does not return while another live caller
\* holds a fresh lock on k; it returns only after that holder's Unlock(k).
LockBlocksWhileHeld ==
    [][\A k \in LockKeys, c \in Callers, d \in Callers :
          (c # d /\ <<d, k>> \in holding /\ d \notin crashed /\ Fresh(d, k))
              => ~Acquires(c, k)]_vars

\* C9 (SpecLock). Crash recovery: while the lock of a crashed holder on k is present,
\* a Lock(k) call of another caller does not succeed before the lock's age has
\* reached the staleness threshold.
NoStealBeforeStale ==
    [][\A k \in LockKeys, c \in Callers, d \in Callers :
          (c # d /\ d \in crashed /\ <<d, k>> \in holding /\ Acquires(c, k))
              => clock - lockedAt[<<d, k>>] >= StaleAfter]_vars

\* C10 (SpecLock). Owner-only release: after Unlock(k) by a caller d that does not
\* hold k, the fresh lock a live caller c holds on k is still held: d's next Lock(k)
\* does not succeed while c has not unlocked.
OwnerOnlyRelease ==
    [][\A k \in LockKeys, c \in Callers, d \in Callers :
          (/\ c # d /\ <<c, k>> \in holding /\ c \notin crashed /\ Fresh(c, k)
           /\ last.op = "Unlock" /\ last.caller = d /\ last.key = k)
              => ~Acquires(d, k)]_vars

\* C11 (SpecUnlock). Unlock idempotence: Unlock(k) by a caller that does not hold k
\* (k never locked, or already unlocked by the call before) returns no error and
\* leaves the container and the other callers' locks as they were.
UnlockIdempotent ==
    [][\A c \in Callers, k \in LockKeys :
          (Unlock(c, k) /\ <<c, k>> \notin holding)
              => (last'.err = "nil" /\ blobs' = blobs /\ holding' = holding)]_vars

\* C11 witness: an Unlock(k) has returned nil right after the same Unlock(k), the
\* caller no longer holding k, with the container still holding its blob.
UnlockTwiceReached ==
    /\ last.op = "Unlock" /\ last.again /\ ~last.held /\ last.err = "nil"
    /\ DOMAIN blobs # {}

\* C12 (SpecLock). Lock cancellation: a Lock(k) call whose context has ended while
\* another live caller holds a fresh lock on k returns Canceled or DeadlineExceeded,
\* and does not acquire k.
LockHonoursContext ==
    [][\A k \in LockKeys, c \in Callers, d \in Callers :
          (/\ c # d /\ <<d, k>> \in holding /\ d \notin crashed /\ Fresh(d, k)
           /\ c \in ctxDone /\ pc[c] = "Lock" /\ pcKey[c] = k /\ pc'[c] = "idle")
              => (last'.err \in {"Canceled", "DeadlineExceeded"} /\ <<c, k>> \notin holding')]_vars

\* C13 (Spec). Transport errors propagate: a Store, Delete or List made while the
\* backend does not answer, and a Load of an existing key made then, returns the
\* transport error (Load does not return NotFound).
TransportErrorPropagates ==
    (/\ last.op \in {"Store", "Load", "Delete", "List"}
     /\ ~last.up
     /\ last.op = "Load" => KeyPrefix(Prefix, last.key) \in DOMAIN blobs)
        => last.err = "Transport"

\* C14 (Spec). Delete of an absent key: with the backend answering, Delete(k) of a
\* key with no stored object returns success or the NotFound that Load reports, no
\* other error, and leaves the container unchanged.
DeleteAbsent ==
    [][\A k \in StoreKeys :
          (Delete(k) /\ reachable /\ KeyPrefix(Prefix, k) \notin DOMAIN blobs)
              => (last'.err \in {"nil", "NotExist"} /\ blobs' = blobs)]_vars

\* C15 (Spec). Swallowed failures: Exists returns no error, and false whenever its
\* GetProperties probe fails; Stat returns the zero KeyInfo and a nil error whenever
\* its GetProperties probe fails (blob absent, or backend not answering).
FailuresSwallowed ==
    /\ last.op = "Exists" =>
          /\ last.err = "nil"
          /\ (~last.up \/ ExistsPath(Prefix, last.key) \notin DOMAIN blobs) => ~last.ok
    /\ (last.op = "Stat" /\ (~last.up \/ KeyPrefix(Prefix, last.key) \notin DOMAIN blobs))
          => (last.info = NoKeyInfo /\ last.err = "nil")

\* C15 witness: Exists has answered false during an outage although the blob it
\* probes is in the container.
ExistsSwallowedOutage ==
    /\ last.op = "Exists" /\ ~last.up /\ ~last.ok /\ last.err = "nil"
    /\ ExistsPath(Prefix, last.key) \in DOMAIN blobs

\* C16 (SpecConc). Last writer wins: after Stores of a key, concurrent or not, the
\* blob at its path holds exactly the value of the Store whose put completed last,
\* and a Load that returns a value returns that value.
LastWriterWins ==
    /\ \A k \in ConcKeys :
          hist[k].st = "stored" =>
              /\ KeyPrefix(Prefix, k) \in DOMAIN blobs
              /\ blobs[KeyPrefix(Prefix, k)] = hist[k].val
    /\ (last.op = "Load" /\ last.err = "nil") =>
          (hist[last.key].st = "stored" /\ last.data = hist[last.key].val)

\* C16 witness: two Store calls of one key by different callers overlapped, both
\* returned, and a Load after them returned the value put last.
RacedStoresLoaded ==
    /\ last.op = "Load" /\ last.err = "nil"
    /\ hist[last.key].raced
    /\ last.data = hist[last.key].val
    /\ \A c \in Callers : pc[c] = "idle"

\* C17 (SpecString). Secret non-disclosure: String() contains the account name, the
\* container and the prefix, and a backend that differs only in AccountKey gives the
\* same string.
StringHidesSecret ==
    last.op = "String" =>
        /\ Contains(last.data, last.az.AccountName)
        /\ Contains(last.data, last.az.Container)
        /\ Contains(last.data, Prefix)
        /\ \A secret \in AccountKeys :
              String([last.az EXCEPT !.AccountKey = secret], Prefix) = last.data

\* C17 witness: String() was called on a backend with a non-empty secret and a
\* non-empty prefix.
StringOfSecretBackend ==
    last.op = "String" /\ last.az.AccountKey # <<>> /\ Prefix # <<>> /\ last.data # <<>>

\* C18 (SpecConc). Load under a concurrent Delete: with the backend answering, a
\* Load returns the stored payload or NotFound, never another error, whatever other
\* callers' Store and Delete calls come between its probe and its fetch.
LoadPayloadOrNotFound ==
    (last.op = "Load" /\ last.up) => last.err \in {"nil", "NotExist"}

\* C19 (Spec). Read-only operations: the container changes only in a step of Store
\* or Delete; Load, Exists, Stat and List, succeeding or failing, leave the stored
\* blobs and their payloads as they were.
OnlyStoreDeleteWrite ==
    [][blobs' # blobs => last'.op \in {"Store", "Delete"}]_vars

\* C19 witness: a Load has returned the payload of a key, and the container still
\* holds that blob with that payload.
LoadLeftBlob ==
    /\ last.op = "Load" /\ last.err = "nil"
    /\ KeyPrefix(Prefix, last.key) \in DOMAIN blobs
    /\ blobs[KeyPrefix(Prefix, last.key)] = last.data

\* C20 (Spec). Stat returns the caller's key: for an existing valid key k, under
\* every Prefix, the Key of the KeyInfo Stat(k) returns is k, not the backend path.
StatReturnsKey ==
    (/\ last.op = "Stat" /\ last.up /\ ValidKey(last.key)
     /\ KeyPrefix(Prefix, last.key) \in DOMAIN blobs)
        => last.info.Key = last.key

====
